---- MODULE Spec2Model ----
(***************************************************************************)
(* A model of two components of GPflow:                                    *)
(*   gpflow/expectations/misc.py  - the transpose, mean-function and       *)
(*       conversion rules registered with the expectation dispatcher;      *)
(*   gpflow/optimizers/mcmc.py    - SamplingHelper, the HMC adapter.       *)
(* The dispatcher itself (gpflow/expectations/dispatch.py), the class      *)
(* hierarchies and the kernel-specific closed forms live outside these two *)
(* files; they are modelled from the specification and are marked so.      *)
(***************************************************************************)
EXTENDS Integers, Sequences, FiniteSets, TLC

VARIABLES
    extras,     \* collaborator rules registered at load time (names)
    top,        \* the arguments of the caller's expectation call
    call,       \* an expectation(...) invocation waiting to be dispatched
    stack,      \* the frames of the rules being executed, innermost last
    ret,        \* the value or exception the last finished invocation gave
    log,        \* the invocations finished so far, in order of completion
    helper,     \* the SamplingHelper: its construction status and fields
    variables,  \* the unconstrained tf.Variable value of every parameter
    evals       \* the evaluations of the target-log-prob closure so far

vars == <<extras, top, call, stack, ret, log, helper, variables, evals>>
evars == <<extras, top, call, stack, ret, log>>
avars == <<helper, variables, evals>>

----------------------------------------------------------------------------
\* Bounds of the model.

\* The largest number of rows N of a distribution.
MaxN == 2
\* The interpreter's limit on nested calls (Python raises RecursionError).
MaxDepth == 7
\* The largest number of parameters handed to SamplingHelper.
MaxParams == 2

----------------------------------------------------------------------------
\* Tensors: nested sequences of integers.

Front(s) == SubSeq(s, 1, Len(s) - 1)

RECURSIVE SumTo(_, _)
SumTo(f, n) == IF n = 0 THEN 0 ELSE f[n] + SumTo(f, n - 1)

\* tf.linalg.diag of a vector.
Diag(v) == [i \in 1..Len(v) |-> [j \in 1..Len(v) |-> IF i = j THEN v[i] ELSE 0]]

\* tf.linalg.diag of a batch of vectors (N x D -> N x D x D).
BatchDiag(t) == [n \in 1..Len(t) |-> Diag(t[n])]

\* The transpose of one matrix.
Transpose(m) == [j \in 1..Len(m[1]) |-> [i \in 1..Len(m) |-> m[i][j]]]

\* tf.linalg.adjoint of a real N x I x J tensor: the last two axes swapped.
Adjoint(t) == [n \in 1..Len(t) |-> Transpose(t[n])]

\* tf.linalg.matmul of two matrices.
MatMul(a, b) ==
    [i \in 1..Len(a) |-> [j \in 1..Len(b[1]) |->
        SumTo([k \in 1..Len(b) |-> a[i][k] * b[k][j]], Len(b))]]

\* tf.tile(A[None, :, :], (N, 1, 1)).
Tile(A, N) == [n \in 1..N |-> A]

\* tf.linalg.matmul(a, b, transpose_a=True) on batches.
BatchMatMulTA(a, b) == [n \in 1..Len(a) |-> MatMul(Transpose(a[n]), b[n])]

\* v[None, :, None] * e[:, None, :], with v a vector (Q) and e a matrix (N x M).
OuterVec(v, e) ==
    [n \in 1..Len(e) |-> [q \in 1..Len(v) |-> [m \in 1..Len(e[n]) |-> v[q] * e[n][m]]]]

\* c[..., None] * e[:, None, :], with c (N x Q) and e (N x M).
OuterRows(c, e) ==
    [n \in 1..Len(e) |-> [q \in 1..Len(c[n]) |-> [m \in 1..Len(e[n]) |-> c[n][q] * e[n][m]]]]

\* Elementwise sum of two N x Q x M tensors.
TensorAdd(x, y) ==
    [n \in 1..Len(x) |-> [q \in 1..Len(x[n]) |-> [m \in 1..Len(x[n][q]) |->
        x[n][q][m] + y[n][q][m]]]]

----------------------------------------------------------------------------
\* Values: distributions, mean functions, kernels, features, outcomes.

NoneObj == [type |-> "NoneType"]
NoNghp == "None"
Nghps == {NoNghp, "nghp"}

Gaussian(mu, cov) == [type |-> "Gaussian", mu |-> mu, cov |-> cov]
DiagonalGaussian(mu, cov) == [type |-> "DiagonalGaussian", mu |-> mu, cov |-> cov]
MarkovGaussian(mu, cov) == [type |-> "MarkovGaussian", mu |-> mu, cov |-> cov]

\* mfn.Identity(D): the Linear mean function with A = I and b = 0.
Identity(D) ==
    [type |-> "mfn.Identity", A |-> Diag([d \in 1..D |-> 1]), b |-> [d \in 1..D |-> 0]]
Linear(A, b) == [type |-> "mfn.Linear", A |-> A, b |-> b]
Constant(c) == [type |-> "mfn.Constant", c |-> c]

\* constant_mean(X): the constant tiled over the rows of X.
ConstantCall(m, X) == [n \in 1..Len(X) |-> m.c]

\* The sample rows a distribution is built from: a mean row, a per-dimension
\* variance row, a full covariance block and a cross-covariance block.
RowIds == {1, 2}
MuRow(r) == IF r = 1 THEN <<1, 2>> ELSE <<0, 1>>
VarRow(r) == IF r = 1 THEN <<1, 3>> ELSE <<2, 1>>
CovBlock(r) == IF r = 1 THEN <<<<2, 1>>, <<1, 3>>>> ELSE <<<<1, 0>>, <<0, 2>>>>
CrossBlock(r) == IF r = 1 THEN <<<<0, 1>>, <<2, 0>>>> ELSE <<<<1, 1>>, <<0, 1>>>>

RowSeqs == UNION {[1..n -> RowIds] : n \in 1..MaxN}

Distributions ==
    {Gaussian([n \in DOMAIN r |-> MuRow(r[n])], [n \in DOMAIN r |-> CovBlock(r[n])]) :
        r \in RowSeqs}
    \cup
    {DiagonalGaussian([n \in DOMAIN r |-> MuRow(r[n])], [n \in DOMAIN r |-> VarRow(r[n])]) :
        r \in RowSeqs}
    \cup
    {MarkovGaussian([n \in DOMAIN r |-> MuRow(r[n])],
                    <<[n \in DOMAIN r |-> CovBlock(r[n])],
                      [n \in DOMAIN r |-> CrossBlock(r[n])]>>) : r \in RowSeqs}

MeanFunctions ==
    {Identity(2), Linear(<<<<1, 2>>, <<0, 3>>>>, <<1, 2>>), Linear(<<<<2>>, <<1>>>>, <<3>>),
     Constant(<<4, 5>>)}

Kernels == {[type |-> "kernels.Linear"], [type |-> "kernels.RBF"]}

\* A term (operator, feature_or_none); an absent term is (None, None).
Terms ==
    {<<NoneObj, NoneObj>>}
    \cup {<<m, NoneObj>> : m \in MeanFunctions}
    \cup {<<k, [type |-> "InducingPoints", M |-> 2]>> : k \in Kernels}
    \cup {<<[type |-> "kernels.RBF"], [type |-> "Multiscale", M |-> 2]>>}

\* What an invocation gives: a tensor of rank 2 or 3, or an exception.
Tensor2(v) == [kind |-> "tensor", rank |-> 2, val |-> v]
Tensor3(v) == [kind |-> "tensor", rank |-> 3, val |-> v]
Raise(e) == [kind |-> e, rank |-> 0, val |-> <<>>]
NoRet == [kind |-> "none", rank |-> 0, val |-> <<>>]
NoCall == [type |-> "NoCall"]

----------------------------------------------------------------------------
\* The class hierarchy the rules' annotations range over.

\* The classes c is an instance of: c and its ancestors.
Supers(c) ==
    CASE c = "mfn.Identity" -> {"mfn.Identity", "mfn.Linear", "mfn.MeanFunction", "object"}
      [] c = "mfn.Linear" -> {"mfn.Linear", "mfn.MeanFunction", "object"}
      [] c = "mfn.Constant" -> {"mfn.Constant", "mfn.MeanFunction", "object"}
      [] c = "mfn.MeanFunction" -> {"mfn.MeanFunction", "object"}
      [] c = "kernels.Linear" -> {"kernels.Linear", "kernels.Kernel", "object"}
      [] c = "kernels.RBF" -> {"kernels.RBF", "kernels.Kernel", "object"}
      [] c = "kernels.Kernel" -> {"kernels.Kernel", "object"}
      [] c = "InducingPoints" -> {"InducingPoints", "InducingFeature", "object"}
      [] c = "Multiscale" -> {"Multiscale", "InducingFeature", "object"}
      [] c = "InducingFeature" -> {"InducingFeature", "object"}
      [] OTHER -> {c, "object"}

\* The signatures a rule annotated with these type sets is registered under:
\* a Union annotation registers the rule once per member.
Sigs(ps, o1s, f1s, o2s, f2s) == ps \X o1s \X f1s \X o2s \X f2s

FeatOrNone == {"InducingFeature", "NoneType"}

\* misc.py:16-18
TransposeIdentityLinearSig ==
    Sigs({"MarkovGaussian", "Gaussian"}, {"mfn.Identity"}, {"NoneType"},
         {"kernels.Linear"}, {"InducingPoints"})

\* misc.py:30-32
TransposeKernelMeanSig ==
    Sigs({"MarkovGaussian", "Gaussian"}, {"kernels.Kernel"}, {"InducingFeature"},
         {"mfn.MeanFunction"}, {"NoneType"})

\* misc.py:43-45
ConstantMeanSig ==
    Sigs({"Gaussian"}, {"mfn.Constant"}, {"NoneType"}, {"kernels.Kernel"},
         {"InducingPoints"})

\* misc.py:60-62
LinearMeanSig ==
    Sigs({"Gaussian"}, {"mfn.Linear"}, {"NoneType"}, {"kernels.Kernel"},
         {"InducingPoints"})

\* A guard registered for the wrong distribution: the Identity case of a
\* Gaussian then falls to the Linear-mean rule.
IdentityGuardSigMisplaced ==
    Sigs({"DiagonalGaussian"}, {"mfn.Identity"}, {"NoneType"}, {"kernels.Kernel"},
         {"InducingPoints"})

\* misc.py:81-83
IdentityGuardSig ==
    Sigs({"Gaussian"}, {"mfn.Identity"}, {"NoneType"}, {"kernels.Kernel"},
         {"InducingPoints"})

\* misc.py:99-101
DiagonalFallbackSig ==
    Sigs({"DiagonalGaussian"}, {"object"}, FeatOrNone, {"object"}, FeatOrNone)

\* misc.py:108-110
MarkovFallbackSig ==
    Sigs({"MarkovGaussian"}, {"object"}, FeatOrNone, {"object"}, FeatOrNone)

\* The closed forms collaborators (kernel modules) may register at load time.
CollaboratorSig(name) ==
    CASE name = "KernelPoints" ->
            Sigs({"Gaussian"}, {"kernels.Kernel"}, {"InducingPoints"}, {"NoneType"},
                 {"NoneType"})
      [] name = "LinearKernelIdentity" ->
            Sigs({"MarkovGaussian", "Gaussian"}, {"kernels.Linear"}, {"InducingPoints"},
                 {"mfn.Identity"}, {"NoneType"})
      [] name = "IdentityRBF" ->
            Sigs({"Gaussian"}, {"mfn.Identity"}, {"NoneType"}, {"kernels.RBF"},
                 {"InducingPoints"})

Collaborators == {"KernelPoints", "LinearKernelIdentity", "IdentityRBF"}

MiscRules ==
    {"TransposeIdentityLinear", "TransposeKernelMean", "ConstantMean", "LinearMean",
     "IdentityGuard", "DiagonalFallback", "MarkovFallback"}

RuleSigs(name) ==
    CASE name = "TransposeIdentityLinear" -> TransposeIdentityLinearSig
      [] name = "TransposeKernelMean" -> TransposeKernelMeanSig
      [] name = "ConstantMean" -> ConstantMeanSig
      [] name = "LinearMean" -> LinearMeanSig
      [] name = "IdentityGuard" -> IdentityGuardSig
      [] name = "DiagonalFallback" -> DiagonalFallbackSig
      [] name = "MarkovFallback" -> MarkovFallbackSig
      [] OTHER -> CollaboratorSig(name)

\* The registry after load: every (rule, signature) registration.
Registry(ex) ==
    UNION {{<<r, s>> : s \in RuleSigs(r)} : r \in MiscRules \cup ex}

\* A registered signature matches a call when every argument is an instance of
\* the class at its position.
Matches(sig, types) == \A i \in 1..5 : sig[i] \in Supers(types[i])

\* s1 is at least as specific as s2: position by position a subclass.
AtLeastAsSpecific(s1, s2) == \A i \in 1..5 : s2[i] \in Supers(s1[i])

\* resolve: the most specific matching registration, or NoMatchingRule when
\* nothing matches or no match is more specific than all the others.
Resolve(ex, types) ==
    LET cands == {e \in Registry(ex) : Matches(e[2], types)}
        best == {e \in cands : \A f \in cands : AtLeastAsSpecific(e[2], f[2])}
    IN  IF best = {} THEN "NoMatchingRule" ELSE (CHOOSE e \in best : TRUE)[1]

\* The runtime types expectation builds the signature from.
TypesOf(c) == <<c.p.type, c.obj1.type, c.feat1.type, c.obj2.type, c.feat2.type>>

\* expectation(p, term1, term2=None, nghp=None): terms are unpacked into
\* (operator, feature); an absent term is (None, None).
Expectation(p, term1, term2, nghp) ==
    [type |-> "call", p |-> p, obj1 |-> term1[1], feat1 |-> term1[2],
     obj2 |-> term2[1], feat2 |-> term2[2], nghp |-> nghp]

NoTerm == <<NoneObj, NoneObj>>

----------------------------------------------------------------------------
\* The closed forms of the collaborators. Their formulas are not part of
\* misc.py; each is a fixed function of its arguments, sensitive to every row
\* of the distribution, to the kernel and to nghp.

Trace2(b) == b[1][1] + 3 * b[1][2] + 5 * b[2][1] + 7 * b[2][2]

RowCode(p, n) ==
    p.mu[n][1] + 2 * p.mu[n][2]
    + (IF p.type = "MarkovGaussian"
       THEN Trace2(p.cov[1][n]) + 11 * Trace2(p.cov[2][n])
       ELSE Trace2(p.cov[n]))

KernelCode(k) == IF k.type = "kernels.Linear" THEN 1 ELSE 2
NghpCode(h) == IF h = NoNghp THEN 0 ELSE 100

\* <K(x_n, Z)>: N x M.
KernelPoints(p, kernel, feature, nghp) ==
    [n \in 1..Len(p.mu) |-> [m \in 1..feature.M |->
        KernelCode(kernel) * RowCode(p, n) + m + NghpCode(nghp)]]

\* <K(Z, x_n) x_n^T> for the Linear kernel: N x M x D.
LinearKernelIdentity(p, kernel, feature, mean, nghp) ==
    [n \in 1..Len(p.mu) |-> [m \in 1..feature.M |-> [d \in 1..Len(mean.b) |->
        RowCode(p, n) * m + 13 * d + NghpCode(nghp)]]]

\* <x_n K(x_n, Z)> for the RBF kernel: N x D x M.
IdentityRBF(p, mean, kernel, feature, nghp) ==
    [n \in 1..Len(p.mu) |-> [d \in 1..Len(mean.b) |-> [m \in 1..feature.M |->
        RowCode(p, n) * d + 17 * m + NghpCode(nghp)]]]

----------------------------------------------------------------------------
\* The interpreter: expectation calls, rule frames, returns.

Frame(rule, c) ==
    [rule |-> rule, p |-> c.p, obj1 |-> c.obj1, feat1 |-> c.feat1, obj2 |-> c.obj2,
     feat2 |-> c.feat2, nghp |-> c.nghp, pc |-> "start", calls |-> <<>>, tmp |-> <<>>]

\* What the log keeps of a finished invocation.
Entry(f, r) ==
    [rule |-> f.rule, p |-> f.p, obj1 |-> f.obj1, feat1 |-> f.feat1, obj2 |-> f.obj2,
     feat2 |-> f.feat2, nghp |-> f.nghp, calls |-> f.calls, ret |-> r]

Depth == Len(stack)
Top == stack[Depth]

\* The innermost frame runs `rule` and stands at `pc`.
At(rule, pc) ==
    /\ Depth > 0
    /\ call = NoCall
    /\ Top.rule = rule
    /\ Top.pc = pc
    /\ (pc = "start") = (ret = NoRet)

\* The innermost frame calls expectation: c, and waits at `pc` for it.
Invoke(c, pc) ==
    /\ call' = c
    /\ stack' = [stack EXCEPT ![Depth] = [@ EXCEPT !.pc = pc, !.calls = Append(@, c)]]
    /\ UNCHANGED <<ret, log>>

\* The same, keeping the value v the last call returned.
InvokeKeeping(c, pc, v) ==
    /\ call' = c
    /\ stack' = [stack EXCEPT ![Depth] =
                    [@ EXCEPT !.pc = pc, !.calls = Append(@, c), !.tmp = v]]
    /\ ret' = NoRet
    /\ UNCHANGED log

\* The innermost frame returns r (a tensor, or the exception passing through).
Return(r) ==
    /\ stack' = Front(stack)
    /\ ret' = r
    /\ log' = Append(log, Entry(Top, r))
    /\ UNCHANGED call

\* The load of the package: misc.py's rules and any of the collaborators'.
\* No SamplingHelper is in use while expectations are computed.
InitE ==
    /\ extras \in SUBSET Collaborators
    /\ top = NoCall
    /\ call = NoCall
    /\ stack = <<>>
    /\ ret = NoRet
    /\ log = <<>>
    /\ helper = [status |-> "none", given |-> <<>>, parameters |-> <<>>]
    /\ variables = <<>>
    /\ evals = <<>>

\* A caller invokes expectation(p, term1, term2, nghp).
Call ==
    /\ top = NoCall
    /\ \E p \in Distributions, term1 \in Terms, term2 \in Terms, nghp \in Nghps :
          /\ call' = Expectation(p, term1, term2, nghp)
          /\ top' = call'
    /\ UNCHANGED <<extras, stack, ret, log, avars>>

\* expectation: resolve the rule for the pending call and enter it.
Dispatch ==
    /\ call # NoCall
    /\ LET rule == Resolve(extras, TypesOf(call)) IN
         \/ /\ Depth >= MaxDepth
            /\ ret' = Raise("RecursionError")
            /\ log' = Append(log, Entry(Frame("none", call), ret'))
            /\ UNCHANGED stack
         \/ /\ Depth < MaxDepth
            /\ rule = "NoMatchingRule"
            /\ ret' = Raise("NoMatchingRule")
            /\ log' = Append(log, Entry(Frame("none", call), ret'))
            /\ UNCHANGED stack
         \/ /\ Depth < MaxDepth
            /\ rule # "NoMatchingRule"
            /\ stack' = Append(stack, Frame(rule, call))
            /\ UNCHANGED <<ret, log>>
    /\ call' = NoCall
    /\ UNCHANGED <<extras, top, avars>>

----------------------------------------------------------------------------
\* The rules of misc.py. A frame f holds the rule's arguments.

IsTensor(r) == r.kind = "tensor"

\* misc.py:27: expectation(p, (kernel, feature), mean); nghp is not passed on.
TransposeIdentityLinearCall(f) ==
    Expectation(f.p, <<f.obj2, f.feat2>>, <<f.obj1, NoneObj>>, NoNghp)

\* A delegation that returns the other ordering's tensor as it is.
TransposeIdentityLinearResultPlain(f, v) == v

\* misc.py:27: tf.linalg.adjoint of what the call returned.
TransposeIdentityLinearResult(f, v) == Adjoint(v)

TransposeIdentityLinear ==
    /\ \/ /\ At("TransposeIdentityLinear", "start")
          /\ Invoke(TransposeIdentityLinearCall(Top), "adjoint")
       \/ /\ At("TransposeIdentityLinear", "adjoint")
          /\ IF IsTensor(ret)
             THEN Return(Tensor3(TransposeIdentityLinearResult(Top, ret.val)))
             ELSE Return(ret)
    /\ UNCHANGED <<extras, top, avars>>

\* misc.py:40: expectation(p, mean, (kernel, feature), nghp=nghp); the rule's
\* first term is the kernel, its second the mean function.
TransposeKernelMeanCall(f) ==
    Expectation(f.p, <<f.obj2, NoneObj>>, <<f.obj1, f.feat1>>, f.nghp)

\* misc.py:40
TransposeKernelMeanResult(f, v) == Adjoint(v)

TransposeKernelMean ==
    /\ \/ /\ At("TransposeKernelMean", "start")
          /\ Invoke(TransposeKernelMeanCall(Top), "adjoint")
       \/ /\ At("TransposeKernelMean", "adjoint")
          /\ IF IsTensor(ret)
             THEN Return(Tensor3(TransposeKernelMeanResult(Top, ret.val)))
             ELSE Return(ret)
    /\ UNCHANGED <<extras, top, avars>>

\* misc.py:55: eKxz = expectation(p, (kernel, feature), nghp=nghp)
ConstantMeanCall(f) == Expectation(f.p, <<f.obj2, f.feat2>>, NoTerm, f.nghp)

\* misc.py:54-57: c[..., None] * eKxz[:, None, :] with c = constant_mean(p.mu)
ConstantMeanResult(f, eKxz) == OuterRows(ConstantCall(f.obj1, f.p.mu), eKxz)

ConstantMean ==
    /\ \/ /\ At("ConstantMean", "start")
          /\ Invoke(ConstantMeanCall(Top), "eKxz")
       \/ /\ At("ConstantMean", "eKxz")
          /\ IF IsTensor(ret)
             THEN Return(Tensor3(ConstantMeanResult(Top, ret.val)))
             ELSE Return(ret)
    /\ UNCHANGED <<extras, top, avars>>

\* misc.py:71-73: exKxz = expectation(p, mfn.Identity(D), (kernel, feature), nghp=nghp)
LinearMeanCallIdentity(f) ==
    Expectation(f.p, <<Identity(Len(f.p.mu[1])), NoneObj>>, <<f.obj2, f.feat2>>, f.nghp)

\* misc.py:74: eKxz = expectation(p, (kernel, feature), nghp=nghp)
LinearMeanCallKernel(f) == Expectation(f.p, <<f.obj2, f.feat2>>, NoTerm, f.nghp)

\* A rule that forgets the offset term ebKxz.
LinearMeanResultNoOffset(f, exKxz, eKxz) ==
    BatchMatMulTA(Tile(f.obj1.A, Len(f.p.mu)), exKxz)

\* misc.py:75-78: matmul(tile(A), exKxz, transpose_a=True) + b[None, :, None] * eKxz[:, None, :]
LinearMeanResult(f, exKxz, eKxz) ==
    TensorAdd(BatchMatMulTA(Tile(f.obj1.A, Len(f.p.mu)), exKxz),
              OuterVec(f.obj1.b, eKxz))

LinearMean ==
    /\ \/ /\ At("LinearMean", "start")
          /\ Invoke(LinearMeanCallIdentity(Top), "exKxz")
       \/ /\ At("LinearMean", "exKxz")
          /\ IF IsTensor(ret)
             THEN InvokeKeeping(LinearMeanCallKernel(Top), "eKxz", ret.val)
             ELSE Return(ret)
       \/ /\ At("LinearMean", "eKxz")
          /\ IF IsTensor(ret)
             THEN Return(Tensor3(LinearMeanResult(Top, Top.tmp, ret.val)))
             ELSE Return(ret)
    /\ UNCHANGED <<extras, top, avars>>

\* misc.py:92: raise NotImplementedError
IdentityGuardResult(f) == Raise("NotImplementedError")

IdentityGuard ==
    /\ At("IdentityGuard", "start")
    /\ Return(IdentityGuardResult(Top))
    /\ UNCHANGED <<extras, top, avars>>

\* A conversion that passes the terms on in the wrong order.
DiagonalFallbackCallSwapped(f) ==
    Expectation(Gaussian(f.p.mu, BatchDiag(f.p.cov)),
                <<f.obj2, f.feat2>>, <<f.obj1, f.feat1>>, f.nghp)

\* misc.py:102-103: Gaussian(p.mu, diag(p.cov)), same terms, same nghp.
DiagonalFallbackCall(f) ==
    Expectation(Gaussian(f.p.mu, BatchDiag(f.p.cov)),
                <<f.obj1, f.feat1>>, <<f.obj2, f.feat2>>, f.nghp)

DiagonalFallback ==
    /\ \/ /\ At("DiagonalFallback", "start")
          /\ Invoke(DiagonalFallbackCall(Top), "return")
       \/ /\ At("DiagonalFallback", "return")
          /\ Return(ret)
    /\ UNCHANGED <<extras, top, avars>>

\* A conversion that takes the same slice for either term.
MarkovFallbackCallSameSlice(f) ==
    IF f.obj2 = NoneObj
    THEN Expectation(Gaussian(Front(f.p.mu), Front(f.p.cov[1])),
                     <<f.obj1, f.feat1>>, NoTerm, f.nghp)
    ELSE IF f.obj1 = NoneObj
    THEN Expectation(Gaussian(Front(f.p.mu), Front(f.p.cov[1])),
                     <<f.obj2, f.feat2>>, NoTerm, f.nghp)
    ELSE Expectation(f.p, <<f.obj1, f.feat1>>, <<f.obj2, f.feat2>>, f.nghp)

\* misc.py:116-123: obj2 absent: steps [:-1] with term1; obj1 absent: steps
\* [1:] with term2; both present: the same call again.
MarkovFallbackCall(f) ==
    IF f.obj2 = NoneObj
    THEN Expectation(Gaussian(Front(f.p.mu), Front(f.p.cov[1])),
                     <<f.obj1, f.feat1>>, NoTerm, f.nghp)
    ELSE IF f.obj1 = NoneObj
    THEN Expectation(Gaussian(Tail(f.p.mu), Tail(f.p.cov[1])),
                     <<f.obj2, f.feat2>>, NoTerm, f.nghp)
    ELSE Expectation(f.p, <<f.obj1, f.feat1>>, <<f.obj2, f.feat2>>, f.nghp)

MarkovFallback ==
    /\ \/ /\ At("MarkovFallback", "start")
          /\ Invoke(MarkovFallbackCall(Top), "return")
       \/ /\ At("MarkovFallback", "return")
          /\ Return(ret)
    /\ UNCHANGED <<extras, top, avars>>

\* A collaborator's closed form returns its tensor.
CollaboratorResult(f) ==
    CASE f.rule = "KernelPoints" -> Tensor2(KernelPoints(f.p, f.obj1, f.feat1, f.nghp))
      [] f.rule = "LinearKernelIdentity" ->
            Tensor3(LinearKernelIdentity(f.p, f.obj1, f.feat1, f.obj2, f.nghp))
      [] f.rule = "IdentityRBF" ->
            Tensor3(IdentityRBF(f.p, f.obj1, f.obj2, f.feat2, f.nghp))

CollaboratorRule ==
    /\ \E name \in Collaborators : At(name, "start")
    /\ Return(CollaboratorResult(Top))
    /\ UNCHANGED <<extras, top, avars>>

NextE ==
    \/ Call
    \/ Dispatch
    \/ TransposeIdentityLinear
    \/ TransposeKernelMean
    \/ ConstantMean
    \/ LinearMean
    \/ IdentityGuard
    \/ DiagonalFallback
    \/ MarkovFallback
    \/ CollaboratorRule

SpecE == InitE /\ [][NextE]_vars

\* The top-level call has finished with outcome ret.
Done == Depth = 0 /\ call = NoCall /\ ret # NoRet

----------------------------------------------------------------------------
\* SamplingHelper (mcmc.py).

\* What may be handed to the constructor: something that is no Parameter, or
\* a Parameter with or without a prior and with or without a transform.
Candidates ==
    {[isParameter |-> FALSE, prior |-> "None", transform |-> "None"]}
    \cup {[isParameter |-> TRUE, prior |-> pr, transform |-> t] :
            pr \in {"None", "prior"}, t \in {"None", "Exp"}}

ParameterLists == UNION {[1..n -> Candidates] : n \in 0..MaxParams}

\* The unconstrained values a variable may hold or a sampler may supply.
Values == {0, 1}

\* The Exp bijector: forward(x) = e^x (rounded to an integer here), whose
\* derivative is e^x again, and forward_log_det_jacobian(x) = x.
ExpTable(x) ==
    CASE x = 0 -> 1 [] x = 1 -> 3 [] x = 2 -> 7 [] x = 3 -> 20 [] OTHER -> 55

Forward(t, x) == IF t = "Exp" THEN ExpTable(x) ELSE x
ForwardGrad(t, x) == IF t = "Exp" THEN ExpTable(x) ELSE 1
ForwardLogDetJacobian(t, x) == x
ForwardLogDetJacobianGrad(t, x) == 1

\* The wrapped callable: a log-density of the constrained parameter values,
\* here a sum that weighs every parameter by its position.
TargetLogProb(ps, vs) ==
    SumTo([i \in DOMAIN ps |-> i * Forward(ps[i].transform, vs[i])], Len(ps))

\* Its derivative with respect to the i-th unconstrained variable.
TargetLogProbGrad(ps, vs, i) == i * ForwardGrad(ps[i].transform, vs[i])

\* A check that lets a list through when any one element passes.
AcceptsAny(ps) ==
    \E i \in DOMAIN ps : ps[i].isParameter /\ ps[i].prior # "None"

\* mcmc.py:56: all(isinstance(p, Parameter) and p.prior is not None for p in parameters)
Accepts(ps) ==
    \A i \in DOMAIN ps : ps[i].isParameter /\ ps[i].prior # "None"

\* No helper has been constructed; nothing is being dispatched.
InitA ==
    /\ helper = [status |-> "none", given |-> <<>>, parameters |-> <<>>]
    /\ variables = <<>>
    /\ evals = <<>>
    /\ extras = {}
    /\ top = NoCall
    /\ call = NoCall
    /\ stack = <<>>
    /\ ret = NoRet
    /\ log = <<>>

\* mcmc.py:48-61: SamplingHelper(target_log_prob_fn, parameters). The
\* parameters' unconstrained variables hold some values vs at that time.
Construct ==
    /\ helper.status = "none"
    /\ \E ps \in ParameterLists : \E vs \in [DOMAIN ps -> Values] :
          /\ variables' = vs
          /\ helper' = IF Accepts(ps)
                       THEN [status |-> "configured", given |-> ps, parameters |-> ps]
                       ELSE [status |-> "ValueError", given |-> ps, parameters |-> <<>>]
    /\ UNCHANGED <<evals, evars>>

\* mcmc.py:79-80: for v_old, v_new in zip(variables_list, variables): v_old.assign(v_new)
Assign(old, new) ==
    [i \in DOMAIN old |-> IF i \in DOMAIN new THEN new[i] ELSE old[i]]

\* A correction that is added for every parameter, transformed or not.
JacobianCorrectionForAll(ps, vs) ==
    SumTo([i \in DOMAIN ps |-> ForwardLogDetJacobian(ps[i].transform, vs[i])], Len(ps))

\* mcmc.py:87-93: for every parameter with a transform, the sum of its
\* forward_log_det_jacobian at the parameter's unconstrained variable.
JacobianCorrection(ps, vs) ==
    SumTo([i \in DOMAIN ps |->
              IF ps[i].transform # "None"
              THEN ForwardLogDetJacobian(ps[i].transform, vs[i])
              ELSE 0], Len(ps))

\* A closure that reads the variables before it has written them.
ClosureStateStale(old, new) == old

\* mcmc.py:79-84: the variables the wrapped callable and the corrections read:
\* those just assigned.
ClosureState(old, new) == Assign(old, new)

\* mcmc.py:84-93: log_prob
ClosureLogProb(ps, vs) == TargetLogProb(ps, vs) + JacobianCorrection(ps, vs)

\* mcmc.py:95-98: tape.gradient(log_prob, variables_list), one entry per variable.
ClosureGrad(ps, vs) ==
    [i \in DOMAIN ps |->
        TargetLogProbGrad(ps, vs, i)
        + (IF ps[i].transform # "None"
           THEN ForwardLogDetJacobianGrad(ps[i].transform, vs[i])
           ELSE 0)]

\* mcmc.py:69-102: the closure target_log_prob_fn returns, applied to one
\* value per parameter. The first evaluation and the latest are remembered,
\* each with whether the variables held something else before it.
Evaluate ==
    /\ helper.status = "configured"
    /\ \E input \in [DOMAIN helper.parameters -> Values] :
          LET seen == ClosureState(variables, input)
              e == [changed |-> (variables # input), input |-> input,
                    after |-> Assign(variables, input),
                    log_prob |-> ClosureLogProb(helper.parameters, seen),
                    grad |-> ClosureGrad(helper.parameters, seen)]
          IN  /\ variables' = Assign(variables, input)
              /\ evals' = IF evals = <<>> THEN <<e>> ELSE <<evals[1], e>>
    /\ UNCHANGED <<helper, evars>>

\* mcmc.py:63-67: current_state hands out the variables themselves; the
\* sampler (or anything else holding a parameter) writes one of them.
SamplerWrite ==
    /\ helper.status = "configured"
    /\ \E i \in DOMAIN variables : \E v \in Values :
          variables' = [variables EXCEPT ![i] = v]
    /\ UNCHANGED <<helper, evals, evars>>

NextA ==
    \/ Construct
    \/ Evaluate
    \/ SamplerWrite

SpecA == InitA /\ [][NextA]_vars

----------------------------------------------------------------------------
\* Reading the log.

SameObj(a, b) == a.type = b.type /\ a = b

\* Entry e is an invocation with the arguments of call c.
IsCall(e, c) ==
    /\ SameObj(e.p, c.p)
    /\ SameObj(e.obj1, c.obj1) /\ SameObj(e.feat1, c.feat1)
    /\ SameObj(e.obj2, c.obj2) /\ SameObj(e.feat2, c.feat2)
    /\ e.nghp = c.nghp

SameRet(a, b) == a.kind = b.kind /\ a.rank = b.rank /\ a.val = b.val

\* An exception passes through adjoint's caller; a tensor is transposed.
AdjointRet(r) == IF IsTensor(r) THEN Tensor3(Adjoint(r.val)) ELSE r

IsKernelType(t) == "kernels.Kernel" \in Supers(t)
IsMeanType(t) == "mfn.MeanFunction" \in Supers(t)

\* Some registered rule is written for Identity and for this kind of kernel
\* in particular (not for every Kernel).
KernelSpecificIdentityRule(ktype) ==
    \E e \in Registry(extras) :
        /\ e[2][1] = "Gaussian"
        /\ e[2][2] = "mfn.Identity"
        /\ e[2][4] \in Supers(ktype) \ {"kernels.Kernel", "object"}

----------------------------------------------------------------------------
\* The calls C1 is about.
IdentityGenericCall(e) ==
    /\ e.p.type = "Gaussian"
    /\ e.obj1.type = "mfn.Identity" /\ e.feat1 = NoneObj
    /\ IsKernelType(e.obj2.type) /\ e.feat2.type = "InducingPoints"
    /\ ~KernelSpecificIdentityRule(e.obj2.type)

\* C1: a Gaussian, an Identity mean without feature, a kernel with no
\* kernel-specific Identity rule, and InducingPoints: the call resolves to the
\* Identity guard (not to the Linear-mean rule), makes no further call and
\* fails with NotImplementedError.
C1_IdentityGuardRaises ==
    /\ \A i \in DOMAIN log :
          IdentityGenericCall(log[i]) =>
             /\ log[i].rule = "IdentityGuard"
             /\ log[i].calls = <<>>
             /\ log[i].ret = Raise("NotImplementedError")
    /\ \A i \in DOMAIN stack :
          IdentityGenericCall(stack[i]) => stack[i].rule = "IdentityGuard"

C1_Witness ==
    /\ Done
    /\ IdentityGenericCall(top)
    /\ ret = Raise("NotImplementedError")

\* C2: every call to expectation ends in a tensor, NotImplementedError or
\* NoMatchingRule: no chain of re-dispatches exhausts the interpreter's stack.
C2_EveryCallTerminates ==
    \A i \in DOMAIN log :
        log[i].ret.kind \in {"tensor", "NotImplementedError", "NoMatchingRule"}


\* g is the full Gaussian of the diagonal Gaussian d: covariance diag(v).
IsDiagOf(g, d) ==
    /\ g.type = "Gaussian"
    /\ g.mu = d.mu
    /\ Len(g.cov) = Len(d.cov)
    /\ \A n \in DOMAIN d.cov : \A i, j \in DOMAIN d.cov[n] :
          g.cov[n][i][j] = (IF i = j THEN d.cov[n][i] ELSE 0)

\* C3: a call on a DiagonalGaussian with mean mu and variances v makes exactly
\* one further call, on the Gaussian with mean mu and covariance diag(v), with
\* the same terms in the same order and the same nghp, and has that call's
\* outcome (the same tensor or the same exception).
C3_DiagonalEqualsFull ==
    \A i \in DOMAIN log :
        log[i].p.type = "DiagonalGaussian" =>
            /\ Len(log[i].calls) = 1
            /\ LET c == log[i].calls[1] IN
                 /\ IsDiagOf(c.p, log[i].p)
                 /\ SameObj(c.obj1, log[i].obj1) /\ SameObj(c.feat1, log[i].feat1)
                 /\ SameObj(c.obj2, log[i].obj2) /\ SameObj(c.feat2, log[i].feat2)
                 /\ c.nghp = log[i].nghp
                 /\ \E j \in 1..(i - 1) :
                       IsCall(log[j], c) /\ SameRet(log[j].ret, log[i].ret)

C3_Witness ==
    /\ Done
    /\ top.p.type = "DiagonalGaussian"
    /\ top.obj1.type = "mfn.Linear" /\ top.obj2.type = "kernels.RBF"
    /\ top.nghp # NoNghp
    /\ IsTensor(ret)

\* Exactly one of the two terms is present.
OnlyTerm2(e) == e.obj1 = NoneObj /\ e.obj2 # NoneObj
OnlyTerm1(e) == e.obj2 = NoneObj /\ e.obj1 # NoneObj

\* g holds the rows of the Markov chain m from row `first` on, N-1 of them.
IsSliceOf(g, m, first) ==
    /\ g.type = "Gaussian"
    /\ Len(g.mu) = Len(m.mu) - 1
    /\ Len(g.cov) = Len(m.mu) - 1
    /\ \A k \in 1..(Len(m.mu) - 1) :
          /\ g.mu[k] = m.mu[first + k - 1]
          /\ g.cov[k] = m.cov[1][first + k - 1]

\* C4: a MarkovGaussian over N steps handled by the Markov fallback with one
\* term: with term2 alone the one further call is on Gaussian(mu[1:], cov[0, 1:])
\* with term2 as its only term; with term1 alone it is on
\* Gaussian(mu[:-1], cov[0, :-1]) with term1 as its only term; the Gaussian has
\* N-1 rows and the fallback has that call's outcome.
C4_MarkovSingleTerm ==
    \A i \in DOMAIN log :
        LET e == log[i] IN
        (e.rule = "MarkovFallback" /\ (OnlyTerm1(e) \/ OnlyTerm2(e))) =>
            /\ Len(e.calls) = 1
            /\ LET c == e.calls[1] IN
                 /\ c.obj2 = NoneObj /\ c.feat2 = NoneObj
                 /\ c.nghp = e.nghp
                 /\ OnlyTerm2(e) =>
                       /\ IsSliceOf(c.p, e.p, 2)
                       /\ SameObj(c.obj1, e.obj2) /\ SameObj(c.feat1, e.feat2)
                 /\ OnlyTerm1(e) =>
                       /\ IsSliceOf(c.p, e.p, 1)
                       /\ SameObj(c.obj1, e.obj1) /\ SameObj(c.feat1, e.feat1)
                 /\ \E j \in 1..(i - 1) :
                       IsCall(log[j], c) /\ SameRet(log[j].ret, e.ret)

C4_Witness ==
    /\ Done
    /\ top.p.type = "MarkovGaussian" /\ Len(top.p.mu) = 2
    /\ top.p.mu[1] # top.p.mu[2]
    /\ OnlyTerm2(top)
    /\ IsTensor(ret)
    /\ log[Len(log)].rule = "MarkovFallback"

\* The two families of calls the transpose rules are written for.
IdentityLinearCall(e) ==
    /\ e.p.type \in {"Gaussian", "MarkovGaussian"}
    /\ e.obj1.type = "mfn.Identity" /\ e.feat1 = NoneObj
    /\ e.obj2.type = "kernels.Linear" /\ e.feat2.type = "InducingPoints"

KernelMeanCall(e) ==
    /\ e.p.type \in {"Gaussian", "MarkovGaussian"}
    /\ IsKernelType(e.obj1.type) /\ "InducingFeature" \in Supers(e.feat1.type)
    /\ IsMeanType(e.obj2.type) /\ e.feat2 = NoneObj

\* g is e with its two terms exchanged.
Exchanged(e, g) ==
    /\ SameObj(g.p, e.p)
    /\ SameObj(g.obj1, e.obj2) /\ SameObj(g.feat1, e.feat2)
    /\ SameObj(g.obj2, e.obj1) /\ SameObj(g.feat2, e.feat1)

\* C5: with nghp left at its default, expectation(p, Identity, (K, Z)) for a
\* Linear kernel K and InducingPoints Z is the adjoint of
\* expectation(p, (K, Z), Identity), and expectation(p, (K, Z), mean) for any
\* kernel with an inducing feature and any mean function is the adjoint of
\* expectation(p, mean, (K, Z)), for p Gaussian or MarkovGaussian; an
\* exception of one is the exception of the other; the adjoint of the adjoint
\* is the value itself.
C5_TransposeDelegation ==
    \A i, j \in DOMAIN log :
        LET e == log[i]
            g == log[j]
        IN  ( /\ IdentityLinearCall(e) \/ KernelMeanCall(e)
              /\ e.nghp = NoNghp /\ g.nghp = NoNghp
              /\ Exchanged(e, g) ) =>
                /\ SameRet(e.ret, AdjointRet(g.ret))
                /\ SameRet(AdjointRet(AdjointRet(e.ret)), e.ret)

C5_Witness ==
    /\ Done
    /\ IdentityLinearCall(top) /\ top.nghp = NoNghp
    /\ IsTensor(ret)
    /\ \E j \in DOMAIN log :
          /\ Exchanged(top, log[j]) /\ log[j].nghp = NoNghp
          /\ log[j].ret.val # ret.val

\* The calls the Linear-mean rule answers, and its formula entry by entry.
LinearMeanCall(e) ==
    /\ e.p.type = "Gaussian"
    /\ e.obj1.type = "mfn.Linear" /\ e.feat1 = NoneObj
    /\ IsKernelType(e.obj2.type) /\ e.feat2.type = "InducingPoints"

LinearFormula(A, b, res, exKxz, eKxz, N, D, Q, M) ==
    /\ Len(res) = N
    /\ \A n \in 1..N :
          /\ Len(res[n]) = Q
          /\ \A q \in 1..Q :
                /\ Len(res[n][q]) = M
                /\ \A m \in 1..M :
                      res[n][q][m] =
                          SumTo([d \in 1..D |-> A[d][q] * exKxz[n][d][m]], D)
                          + b[q] * eKxz[n][m]

\* C6: for a Gaussian p, Linear(A, b), a kernel K and InducingPoints, a
\* returned tensor is result[n,q,m] = sum_d A[d,q]*exKxz[n,d,m] + b[q]*eKxz[n,m],
\* exKxz being the tensor of expectation(p, Identity(D), (K, features)) and
\* eKxz the tensor of expectation(p, (K, features)).
C6_LinearMeanFormula ==
    \A i \in DOMAIN log :
        LET e == log[i] IN
        (LinearMeanCall(e) /\ IsTensor(e.ret)) =>
            \E j, k \in 1..(i - 1) :
                /\ IsCall(log[j], Expectation(e.p, <<Identity(Len(e.p.mu[1])), NoneObj>>,
                                              <<e.obj2, e.feat2>>, e.nghp))
                /\ IsCall(log[k], Expectation(e.p, <<e.obj2, e.feat2>>, NoTerm, e.nghp))
                /\ IsTensor(log[j].ret) /\ IsTensor(log[k].ret)
                /\ LinearFormula(e.obj1.A, e.obj1.b, e.ret.val, log[j].ret.val,
                                 log[k].ret.val, Len(e.p.mu), Len(e.obj1.A),
                                 Len(e.obj1.b), e.feat2.M)

C6_Witness ==
    /\ Done
    /\ LinearMeanCall(top) /\ Len(top.p.mu) = 2 /\ Len(top.obj1.b) = 2
    /\ top.obj2.type = "kernels.Linear"
    /\ IsTensor(ret)

\* C10: every expectation call a rule makes carries the nghp the rule was
\* called with.
C10_NghpPassedThrough ==
    /\ \A i \in DOMAIN stack : \A k \in DOMAIN stack[i].calls :
          stack[i].calls[k].nghp = stack[i].nghp
    /\ \A i \in DOMAIN log : \A k \in DOMAIN log[i].calls :
          log[i].calls[k].nghp = log[i].nghp


----------------------------------------------------------------------------
\* Some element of the list has no prior.
HasAbsentPrior(ps) == \E i \in DOMAIN ps : ps[i].prior = "None"

\* C7: a parameter list with an element whose prior is absent (or that is no
\* Parameter) makes the constructor fail with ValueError, with no field of
\* the helper set and no evaluation possible; a helper that was constructed
\* holds only parameters with a prior.
C7_ConstructionRequiresPriors ==
    /\ (helper.status # "none" /\ HasAbsentPrior(helper.given)) =>
          /\ helper.status = "ValueError"
          /\ helper.parameters = <<>>
          /\ evals = <<>>
    /\ helper.status = "configured" =>
          /\ helper.parameters = helper.given
          /\ \A i \in DOMAIN helper.parameters :
                helper.parameters[i].isParameter /\ helper.parameters[i].prior # "None"

C7_Witness ==
    /\ helper.status = "ValueError"
    /\ Len(helper.given) = 2
    /\ helper.given[1].prior # "None"
    /\ helper.given[2].isParameter /\ helper.given[2].prior = "None"

\* C8: two evaluations of the closure with the same unconstrained input give
\* the same log-probability and the same gradient, whatever the variables
\* held before either of them.
C8_EvaluationDeterministic ==
    (Len(evals) = 2 /\ evals[1].input = evals[2].input) =>
        /\ evals[1].log_prob = evals[2].log_prob
        /\ evals[1].grad = evals[2].grad

C8_Witness ==
    /\ Len(evals) = 2
    /\ Len(evals[1].input) = 2
    /\ evals[1].input = evals[2].input
    /\ ~evals[1].changed
    /\ evals[2].changed

\* The log-det-Jacobian terms of the supplied values: x for a parameter with
\* the Exp transform, nothing for a parameter without transform.
SuppliedCorrection(ps, input) ==
    SumTo([i \in DOMAIN ps |-> IF ps[i].transform = "None" THEN 0 ELSE input[i]],
          Len(ps))

\* C9: an evaluation leaves every variable at the positionally corresponding
\* supplied value, and returns the wrapped log-probability of that state plus
\* the forward log-det-Jacobian, at the value just written, of exactly the
\* parameters that have a transform.
C9_OverwriteThenEvaluate ==
    /\ \A k \in DOMAIN evals :
          /\ evals[k].after = evals[k].input
          /\ evals[k].log_prob =
                TargetLogProb(helper.parameters, evals[k].input)
                + SuppliedCorrection(helper.parameters, evals[k].input)
    /\ \A k \in DOMAIN evals : Len(evals[k].after) = Len(helper.parameters)

C9_Witness ==
    /\ Len(evals) = 1
    /\ Len(helper.parameters) = 2
    /\ helper.parameters[1].transform = "None"
    /\ helper.parameters[2].transform = "Exp"
    /\ evals[1].input = <<1, 1>>
    /\ evals[1].changed
    /\ variables = <<1, 1>>

====
